---- MODULE Spec2Model ----
(***************************************************************************)
(* Model of the Imou config flow (custom_components/imou_life/             *)
(* config_flow.py): the onboarding wizard ImouFlowHandler and the options  *)
(* flow ImouOptionsFlowHandler.  The cloud client (imouapi) and the host   *)
(* (Home Assistant) are the environment: every external call has a         *)
(* nondeterministic outcome, and the host hands a step only a user_input   *)
(* that the schema of the last rendered form accepts.                      *)
(***************************************************************************)
EXTENDS Integers, Sequences, FiniteSets, TLC

\* ------------------------------------------------------------------ bounds
\* Number of form submissions one flow instance may receive in the model.
MaxSubmits == 4

\* ------------------------------------------------------- the value universe
None == "None"
AppIds == {"a", "x"}
AppSecrets == {"b", "y"}
\* Titles an ImouException may report (exception.get_title()).
Titles == {"not_authorized", "connection_failed"}
OK == "ok"
Outcomes == {OK} \cup Titles
\* Keys and handles of a discovery response.
DeviceKeys == {"d1", "d2"}
DeviceNames == {"Cam1", "Unnamed"}
DeviceIds == {"123", "999"}
DisplayNames == {"", "Front"}
Devices == [name : DeviceNames, device_id : DeviceIds]
NoDevice == [name |-> None, device_id |-> None]
EmptyDict == [k \in {} |-> None]

\* const.py keys, as imported by config_flow.py
CONF_APP_ID == "app_id"
CONF_APP_SECRET == "app_secret"
CONF_DEVICE_ID == "device_id"
CONF_DEVICE_NAME == "device_name"
CONF_DISCOVERED_DEVICE == "discovered_device"
CONF_ENABLE_DISCOVER == "enable_discovery"

\* ImouDiscoverService.async_discover_devices(): a mapping key -> device
DiscoverResponses == UNION {[ks -> Devices] : ks \in SUBSET DeviceKeys}

VARIABLES
    app_id, app_secret, session, discover_service, discovered_devices, errors,
    step, formErrors, formKeys, created,
    lastHandler, lastInput, calls, okLogins, deviceName, nSubmit,
    history, returned,
    entry_options, options, optStep, optPrior, optInput, optPrevInput,
    optPrevPersisted, optRuns,
    cached, pushed, pc, cmd, events, lastCompleted, refreshed, overlapped

cfgVars == <<app_id, app_secret, session, discover_service, discovered_devices,
             errors, step, formErrors, formKeys, created,
             lastHandler, lastInput, calls, okLogins, deviceName, nSubmit,
             history, returned>>

optVars == <<entry_options, options, optStep, optPrior, optInput, optPrevInput,
             optPrevPersisted, optRuns>>

vars == <<app_id, app_secret, session, discover_service, discovered_devices,
          errors, step, formErrors, formKeys, created,
          lastHandler, lastInput, calls, okLogins, deviceName, nSubmit,
          history, returned,
          entry_options, options, optStep, optPrior, optInput, optPrevInput,
          optPrevPersisted, optRuns,
          cached, pushed, pc, cmd, events, lastCompleted, refreshed, overlapped>>

swVars == <<cached, pushed, pc, cmd, events, lastCompleted, refreshed, overlapped>>

\* Number of switch actions the host dispatches to one entity in the model.
MaxTasks == 3
Tasks == 1 .. MaxTasks

\* A switch entity no action has been dispatched to; state is the
\* collaborator's cached state, which the host wrote when it added the entity.
SwitchAdded(state) ==
    /\ cached = state
    /\ pushed = state
    /\ pc = [t \in Tasks |-> "idle"]
    /\ cmd = [t \in Tasks |-> None]
    /\ events = [t \in Tasks |-> <<>>]
    /\ lastCompleted = None
    /\ refreshed = FALSE
    /\ overlapped = FALSE

NoService == [present |-> FALSE, app_id |-> None, app_secret |-> None]

\* Mutant of InitialDevices: the device set is a mutable default shared
\* between flow instances and still holds an earlier flow's devices.
InitialDevices_shared == "d1" :> [name |-> "Cam1", device_id |-> "123"]

\* self._discovered_devices = {} (line 40)
InitialDevices == EmptyDict

\* No options flow has run: the entry's options mapping is empty.
OptionsIdle ==
    /\ entry_options = EmptyDict
    /\ options = EmptyDict
    /\ optStep = "none"
    /\ optPrior = EmptyDict
    /\ optInput = EmptyDict
    /\ optPrevInput = EmptyDict
    /\ optPrevPersisted = EmptyDict
    /\ optRuns = 0

\* ImouFlowHandler.__init__, before the host calls the first step
Init ==
    /\ OptionsIdle
    /\ SwitchAdded(FALSE)
    /\ app_id = None
    /\ app_secret = None
    /\ session = None
    /\ discover_service = NoService
    /\ discovered_devices = InitialDevices
    /\ errors = EmptyDict
    /\ step = "none"
    /\ formErrors = EmptyDict
    /\ formKeys = {}
    /\ created = <<>>
    /\ lastHandler = "none"
    /\ lastInput = EmptyDict
    /\ calls = <<>>
    /\ okLogins = <<>>
    /\ deviceName = None
    /\ nSubmit = 0
    /\ history = {}
    /\ returned = {}

\* ------------------------------------------------- the host's form surface
\* vol.Schema of the login form (lines 77-83): the user_input the host passes
\* on to async_step_login
LoginSchema ==
    [app_id : AppIds, app_secret : AppSecrets, enable_discovery : BOOLEAN]

\* vol.Schema of the discover form (lines 121-128): the selection is Required
\* and In(keys offered by the form), the display name is Optional
DiscoverSchema(keys) ==
    [discovered_device : keys]
        \cup [discovered_device : keys, device_name : DisplayNames]

\* vol.Schema of the manual form (lines 173-178)
ManualSchema ==
    [device_id : DeviceIds] \cup [device_id : DeviceIds, device_name : DisplayNames]

\* The user_input a rendered step accepts; a created entry accepts none.
AcceptedInputs(s, keys) ==
    CASE s = "login" -> LoginSchema
      [] s = "discover" -> DiscoverSchema(keys)
      [] s = "manual" -> ManualSchema
      [] OTHER -> {}

\* self.async_show_form(step_id=..., data_schema=..., errors=self._errors)
async_show_form(step_id, keys, errs) ==
    /\ step' = step_id
    /\ formKeys' = keys
    /\ formErrors' = errs
    /\ created' = created

\* Mutant of async_create_entry: the result is not returned, and the form of
\* the step stays up.
async_create_entry_noReturn(title, data) ==
    /\ step' = step
    /\ formKeys' = formKeys
    /\ formErrors' = EmptyDict
    /\ created' = Append(created, [title |-> title, data |-> data])

\* self.async_create_entry(title=name, data=data)
async_create_entry(title, data) ==
    /\ step' = "create_entry"
    /\ formKeys' = {}
    /\ formErrors' = EmptyDict
    /\ created' = Append(created, [title |-> title, data |-> data])

\* An exception no handler catches (a KeyError of the device lookup): the
\* step returns no form and no entry.
Unhandled ==
    /\ step' = "exception"
    /\ formKeys' = {}
    /\ formErrors' = EmptyDict
    /\ created' = created

\* ------------------------------------------------------------ the helpers
\* One external call as the flow issued it, with how it ended.
Call(name, id, secret, dev, outcome) ==
    [call |-> name, app_id |-> id, app_secret |-> secret, device_id |-> dev,
     outcome |-> outcome]

\* Mutant of ResetErrors: the errors of the step before are kept.
ResetErrors_kept == errors

\* self._errors = {} at the head of each step (lines 51, 91, 136)
ResetErrors == EmptyDict

\* Mutant of OfferedKeys: the form takes any device key.
OfferedKeys_any(devices) == DeviceKeys

\* vol.In(self._discovered_devices.keys()): the keys the discover form offers
\* (lines 123-125)
OfferedKeys(devices) == DOMAIN devices

\* Mutant of ManualCalls: initialize is awaited whatever connect did.
ManualCalls_both(connect, initialize) == <<connect, initialize>>

\* Mutant of ManualCalls: a failed connect is tried once more.
ManualCalls_retry(connect, initialize) ==
    IF connect.outcome = OK THEN <<connect, initialize>> ELSE <<connect, connect>>

\* await device.async_connect(); await device.async_initialize() in one try:
\* the calls the manual step issues (lines 146-149)
ManualCalls(connect, initialize) ==
    IF connect.outcome = OK THEN <<connect, initialize>> ELSE <<connect>>

\* Mutant of LoginValid: the outcome of the connect is read the wrong way
\* round.
LoginValid_inverted(connOut) == connOut # OK

\* Mutant of LoginValid: valid is set before the connect is awaited.
LoginValid_early(connOut) == TRUE

\* try: await ...; valid = True / except ImouException (login, lines 57-63)
LoginValid(connOut) == connOut = OK

\* Mutant of BaseError: a fixed error string instead of the title.
BaseError_fixed(title) == "base" :> "unknown"

\* self._errors["base"] = exception.get_title()
BaseError(title) == "base" :> title

\* Mutant of LoginBranch: the two branches swapped.
LoginBranch_swapped(enable) == IF enable THEN "manual" ELSE "discover"

\* if user_input[CONF_ENABLE_DISCOVER]: discover, else: manual (lines 70-73)
LoginBranch(enable) == IF enable THEN "discover" ELSE "manual"

\* Mutant of ChooseName: the test for the empty string is missing.
ChooseName_noEmptyTest(user_input, reported) ==
    IF CONF_DEVICE_NAME \in DOMAIN user_input
    THEN user_input[CONF_DEVICE_NAME]
    ELSE reported

\* The name of the entry: the display name if given and not empty, else the
\* name the device reports (lines 97-102 and 156-161)
ChooseName(user_input, reported) ==
    IF CONF_DEVICE_NAME \in DOMAIN user_input /\ user_input[CONF_DEVICE_NAME] # ""
    THEN user_input[CONF_DEVICE_NAME]
    ELSE reported

\* Mutant of DiscoverData: the selection key stored as the device id.
DiscoverData_key(user_input, name, device) ==
    [device_name |-> name, app_id |-> app_id, app_secret |-> app_secret,
     device_id |-> user_input[CONF_DISCOVERED_DEVICE]]

\* data of the discover step's entry (lines 104-109)
DiscoverData(user_input, name, device) ==
    [device_name |-> name, app_id |-> app_id, app_secret |-> app_secret,
     device_id |-> device.device_id]

\* data of the manual step's entry (lines 163-168)
ManualData(name, user_input) ==
    [device_name |-> name, app_id |-> app_id, app_secret |-> app_secret,
     device_id |-> user_input[CONF_DEVICE_ID]]

\* Mutant of ManualValid: the outcome of initialize is not looked at.
ManualValid_connectOnly(connOut, initOut) == connOut = OK

\* try: connect; initialize; valid = True / except ImouException (145-152)
ManualValid(connOut, initOut) == connOut = OK /\ initOut = OK

\* The outcomes of async_discover_devices(): a mapping, or an ImouException
DiscoverOutcomes ==
    {[outcome |-> OK, devices |-> r] : r \in DiscoverResponses}
        \cup {[outcome |-> t, devices |-> EmptyDict] : t \in Titles}

\* ------------------------------------------------------------- the steps
\* async_step_discover(user_input): hasInput is "user_input is not None",
\* svc the discovery client of self._discover_service, discOut what its
\* device-list request answers if the step issues it, prior the calls the
\* handler made before it entered the step.
async_step_discover(hasInput, user_input, svc, discOut, prior) ==
    LET key == user_input[CONF_DISCOVERED_DEVICE]
        known == hasInput /\ key \in DOMAIN discovered_devices
        device == IF known THEN discovered_devices[key] ELSE NoDevice
        name == ChooseName(user_input, device.name)
        request == Call("discover", svc.app_id, svc.app_secret, None, discOut.outcome)
    IN  /\ deviceName' = None
        /\ IF hasInput /\ ~known
           THEN \* self._discovered_devices[...] raises KeyError
                /\ errors' = ResetErrors
                /\ discovered_devices' = discovered_devices
                /\ calls' = prior
                /\ Unhandled
           ELSE IF hasInput /\ device # NoDevice
           THEN /\ errors' = ResetErrors
                /\ discovered_devices' = discovered_devices
                /\ calls' = prior
                /\ async_create_entry(name, DiscoverData(user_input, name, device))
           ELSE /\ calls' = Append(prior, request)
                /\ IF discOut.outcome = OK
                   THEN /\ discovered_devices' = discOut.devices
                        /\ errors' = ResetErrors
                   ELSE /\ discovered_devices' = discovered_devices
                        /\ errors' = BaseError(discOut.outcome)
                /\ async_show_form("discover", OfferedKeys(discovered_devices'), errors')

\* async_step_manual(user_input): connOut and initOut are how the Device
\* Client's async_connect and async_initialize end, reported what its
\* get_name() answers.
async_step_manual(hasInput, user_input, connOut, initOut, reported, prior) ==
    LET dev == user_input[CONF_DEVICE_ID]
        connect == Call("device_connect", app_id', app_secret', dev, connOut)
        initialize == Call("device_initialize", app_id', app_secret', dev, initOut)
        issued == ManualCalls(connect, initialize)
        valid == ManualValid(connOut, initOut)
        name == ChooseName(user_input, reported)
    IN  /\ discovered_devices' = discovered_devices
        /\ IF ~hasInput
           THEN /\ errors' = ResetErrors
                /\ calls' = prior
                /\ deviceName' = None
                /\ async_show_form("manual", {}, errors')
           ELSE /\ calls' = prior \o issued
                /\ deviceName' = IF connOut = OK /\ initOut = OK THEN reported ELSE None
                /\ IF valid
                   THEN /\ errors' = ResetErrors
                        /\ async_create_entry(name, ManualData(name, user_input))
                   ELSE /\ errors' = BaseError(IF connOut = OK THEN initOut ELSE connOut)
                        /\ async_show_form("manual", {}, errors')

\* ------------------------------------------------------------ the actions
\* What the environment saw of a handler: every call it issued, with the
\* outcome, and every device mapping a device-list request returned.
Observed(discOut) ==
    /\ history' = history \cup {calls'[i] : i \in DOMAIN calls'}
    /\ returned' =
          IF \E i \in DOMAIN calls' :
                calls'[i].call = "discover" /\ calls'[i].outcome = OK
          THEN returned \cup {discOut.devices}
          ELSE returned

\* The host starts the flow: async_step_user creates the HTTP session and
\* runs async_step_login(None), which shows the login form.
FlowInit ==
    /\ step = "none"
    /\ session' = "session"
    /\ errors' = ResetErrors
    /\ async_show_form("login", {}, errors')
    /\ lastHandler' = "user"
    /\ UNCHANGED <<app_id, app_secret, discover_service, discovered_devices,
                   lastInput, calls, okLogins, deviceName, nSubmit,
                   history, returned>>
    /\ UNCHANGED <<optVars, swVars>>

\* A submission of the login form: async_step_login(user_input) and the step
\* it runs on to.
LoginSubmit(user_input, connOut, discOut) ==
    LET svc == [present |-> TRUE, app_id |-> user_input[CONF_APP_ID],
                app_secret |-> user_input[CONF_APP_SECRET]]
        connect == Call("connect", svc.app_id, svc.app_secret, None, connOut)
    IN  /\ step = "login"
        /\ nSubmit < MaxSubmits
        /\ user_input \in AcceptedInputs(step, formKeys)
        /\ nSubmit' = nSubmit + 1
        /\ lastHandler' = "login"
        /\ UNCHANGED <<optVars, swVars>>
        /\ lastInput' = user_input
        /\ session' = session
        /\ discover_service' = svc
        /\ okLogins' = IF connOut = OK THEN Append(okLogins, user_input) ELSE okLogins
        /\ IF LoginValid(connOut)
           THEN /\ app_id' = user_input[CONF_APP_ID]
                /\ app_secret' = user_input[CONF_APP_SECRET]
                /\ IF LoginBranch(user_input[CONF_ENABLE_DISCOVER]) = "discover"
                   THEN async_step_discover(FALSE, EmptyDict, svc, discOut, <<connect>>)
                   ELSE async_step_manual(FALSE, EmptyDict, OK, OK, None, <<connect>>)
           ELSE /\ errors' = BaseError(connOut)
                /\ calls' = <<connect>>
                /\ deviceName' = None
                /\ async_show_form("login", {}, errors')
                /\ UNCHANGED <<app_id, app_secret, discovered_devices>>
        /\ Observed(discOut)

\* A submission of the discover form: async_step_discover(user_input).
DiscoverSubmit(user_input, discOut) ==
    /\ step = "discover"
    /\ nSubmit < MaxSubmits
    /\ user_input \in AcceptedInputs(step, formKeys)
    /\ nSubmit' = nSubmit + 1
    /\ lastHandler' = "discover"
    /\ UNCHANGED <<optVars, swVars>>
    /\ lastInput' = user_input
    /\ async_step_discover(TRUE, user_input, discover_service, discOut, <<>>)
    /\ Observed(discOut)
    /\ UNCHANGED <<app_id, app_secret, session, discover_service, okLogins>>

\* A submission of the manual form: async_step_manual(user_input).
ManualSubmit(user_input, connOut, initOut, reported) ==
    /\ step = "manual"
    /\ nSubmit < MaxSubmits
    /\ user_input \in AcceptedInputs(step, formKeys)
    /\ nSubmit' = nSubmit + 1
    /\ lastHandler' = "manual"
    /\ UNCHANGED <<optVars, swVars>>
    /\ lastInput' = user_input
    /\ UNCHANGED <<app_id, app_secret, session, discover_service, okLogins>>
    /\ async_step_manual(TRUE, user_input, connOut, initOut, reported, <<>>)
    /\ UNCHANGED returned
    /\ history' = history \cup {calls'[i] : i \in DOMAIN calls'}

\* The answers the environment may give to a call: those of `answers` if the
\* handler gets to issue the call, and no answer otherwise.
NoAnswer == [outcome |-> None, devices |-> EmptyDict]
IfIssued(issued, answers, none) == IF issued THEN answers ELSE {none}

Next ==
    \/ FlowInit
    \/ \E ui \in LoginSchema, c \in Outcomes :
          \E d \in IfIssued(c = OK /\ ui[CONF_ENABLE_DISCOVER],
                            DiscoverOutcomes, NoAnswer) :
             LoginSubmit(ui, c, d)
    \/ \E ui \in DiscoverSchema(DeviceKeys) :
          \E d \in IfIssued(ui[CONF_DISCOVERED_DEVICE] \in DOMAIN discovered_devices
                              /\ discovered_devices[ui[CONF_DISCOVERED_DEVICE]] = NoDevice,
                            DiscoverOutcomes, NoAnswer) :
             DiscoverSubmit(ui, d)
    \/ \E ui \in ManualSchema, c \in Outcomes :
          \E i \in IfIssued(c = OK, Outcomes, None) :
             \E n \in IfIssued(c = OK /\ i = OK, DeviceNames, None) :
                ManualSubmit(ui, c, i, n)

Spec == Init /\ [][Next]_vars

\* ------------------------------------------------------ the options flow
OPTION_SCAN_INTERVAL == "scan_interval"
OPTION_API_URL == "api_url"
OPTION_API_TIMEOUT == "api_timeout"
ScanIntervals == {15, 900}
ApiUrls == {"u1", "u2"}
ApiTimeouts == {"5"}

\* vol.Schema of the options form (lines 205-216): the scan interval is
\* Required, the API url and timeout are Optional.
OptionsSchema ==
    [scan_interval : ScanIntervals]
        \cup [scan_interval : ScanIntervals, api_url : ApiUrls]
        \cup [scan_interval : ScanIntervals, api_timeout : ApiTimeouts]
        \cup [scan_interval : ScanIntervals, api_url : ApiUrls,
              api_timeout : ApiTimeouts]

\* Mutant of DictUpdate: the options are replaced by the submission.
DictUpdate_replace(d, u) == u

\* Mutant of DictUpdate: only the keys whose value changed are kept.
DictUpdate_changedOnly(d, u) ==
    [k \in {j \in DOMAIN u : j \notin DOMAIN d \/ d[j] # u[j]} |-> u[k]]

\* dict.update: d with the keys of u set to u's values (line 200)
DictUpdate(d, u) ==
    [k \in DOMAIN d \cup DOMAIN u |-> IF k \in DOMAIN u THEN u[k] ELSE d[k]]

\* An entry a finished config flow created (the discovery scenario): the
\* state an options flow starts from.
EntryExists ==
    /\ app_id = "a"
    /\ app_secret = "b"
    /\ session = "session"
    /\ discover_service = [present |-> TRUE, app_id |-> "a", app_secret |-> "b"]
    /\ discovered_devices = ("d1" :> [name |-> "Cam1", device_id |-> "123"])
    /\ errors = EmptyDict
    /\ step = "create_entry"
    /\ formErrors = EmptyDict
    /\ formKeys = {}
    /\ created = <<[title |-> "Cam1",
                    data |-> [device_name |-> "Cam1", app_id |-> "a",
                              app_secret |-> "b", device_id |-> "123"]]>>
    /\ lastHandler = "discover"
    /\ lastInput = [discovered_device |-> "d1"]
    /\ calls = <<>>
    /\ okLogins = <<[app_id |-> "a", app_secret |-> "b", enable_discovery |-> TRUE]>>
    /\ deviceName = None
    /\ nSubmit = 2
    /\ history = {Call("connect", "a", "b", None, OK),
                  Call("discover", "a", "b", None, OK)}
    /\ returned = {discovered_devices}

InitOptions == EntryExists /\ OptionsIdle /\ SwitchAdded(FALSE)

\* The host opens an options flow on the entry: async_get_options_flow builds
\* ImouOptionsFlowHandler(config_entry), whose __init__ copies the entry's
\* options, and async_step_init(None) shows the form.
OptionsFlowInit ==
    /\ created # <<>>
    /\ optStep # "init"
    /\ options' = entry_options
    /\ optPrior' = entry_options
    /\ optStep' = "init"
    /\ UNCHANGED <<entry_options, optInput, optPrevInput, optPrevPersisted, optRuns>>
    /\ UNCHANGED <<cfgVars, swVars>>

\* A submission of the options form: async_step_init(user_input) updates
\* self.options and _update_options creates the entry with it, which the
\* host stores as the config entry's options.
OptionsSubmit(user_input) ==
    /\ optStep = "init"
    /\ user_input \in OptionsSchema
    /\ options' = DictUpdate(options, user_input)
    /\ entry_options' = options'
    /\ optStep' = "create_entry"
    /\ optInput' = user_input
    /\ optPrevInput' = optInput
    /\ optPrevPersisted' = entry_options
    /\ optRuns' = IF optRuns < 2 THEN optRuns + 1 ELSE optRuns
    /\ UNCHANGED optPrior
    /\ UNCHANGED <<cfgVars, swVars>>

NextOptions ==
    \/ OptionsFlowInit
    \/ \E ui \in OptionsSchema : OptionsSubmit(ui)

OptionsSpec == InitOptions /\ [][NextOptions]_vars

\* C9: the options an update persists are the prior options overridden by
\* the submission: every submitted key has the submitted value, every other
\* key keeps its prior value, and no key is removed.
C9_OptionsMerged ==
    optStep = "create_entry" =>
        /\ DOMAIN entry_options = DOMAIN optPrior \cup DOMAIN optInput
        /\ \A k \in DOMAIN optInput : entry_options[k] = optInput[k]
        /\ \A k \in DOMAIN optPrior \ DOMAIN optInput : entry_options[k] = optPrior[k]

\* C9 witness: an update that changes the scan interval and leaves out the
\* api_url set earlier.
C9_Witness ==
    /\ optStep = "create_entry"
    /\ OPTION_API_URL \in DOMAIN optPrior
    /\ OPTION_API_URL \notin DOMAIN optInput
    /\ optInput[OPTION_SCAN_INTERVAL] # optPrior[OPTION_SCAN_INTERVAL]

\* C10: the update is idempotent: a second run with the same input, starting
\* from what the first persisted, persists the same mapping.
C10_OptionsIdempotent ==
    (optStep = "create_entry" /\ optRuns = 2 /\ optInput = optPrevInput
        /\ optPrior = optPrevPersisted) =>
        entry_options = optPrevPersisted

\* C10 witness: the same input submitted twice in succession, the first run
\* having changed the options.
C10_Witness ==
    /\ optStep = "create_entry"
    /\ optRuns = 2
    /\ optInput = optPrevInput
    /\ optPrior = optPrevPersisted
    /\ OPTION_API_URL \in DOMAIN optInput
    /\ entry_options # optInput

\* ---------------------------------------------------- the switch entity
\* Model of ImouSwitch (custom_components/imou_life/switch.py).  The host
\* dispatches each turn-on or turn-off action as a task of its own; a task
\* suspends at the collaborator's command and, when the command returns,
\* runs on to async_write_ha_state without suspending again.

\* ImouSwitch.is_on: the collaborator's cached state, sensor_instance.is_on()
is_on(sensorState) == sensorState

\* Mutant of WrittenState: the state is read before the command is awaited.
WrittenState_stale(before, after) == is_on(before)

\* The state async_write_ha_state() writes after the command: is_on as it
\* is then (before and after are the cached state when the action was
\* resumed and when the command returned)
WrittenState(before, after) == is_on(after)

\* Mutant of TurnStart: the state is written before the command is awaited.
TurnStart_writeFirst(t, c) ==
    /\ pc[t] = "idle"
    /\ pc' = [pc EXCEPT ![t] = "awaiting"]
    /\ cmd' = [cmd EXCEPT ![t] = c]
    /\ events' = [events EXCEPT ![t] = <<"write", "command">>]
    /\ pushed' = is_on(cached)
    /\ UNCHANGED <<cached, lastCompleted, refreshed, overlapped>>
    /\ UNCHANGED <<cfgVars, optVars>>

\* The head of async_turn_on / async_turn_off up to the await of the
\* collaborator's command c, where task t suspends.
TurnStart(t, c) ==
    /\ pc[t] = "idle"
    /\ pc' = [pc EXCEPT ![t] = "awaiting"]
    /\ cmd' = [cmd EXCEPT ![t] = c]
    /\ events' = [events EXCEPT ![t] = <<"command">>]
    /\ UNCHANGED <<cached, pushed, lastCompleted, refreshed, overlapped>>
    /\ UNCHANGED <<cfgVars, optVars>>

\* ImouSwitch.async_turn_on, to its await
async_turn_on(t) == TurnStart(t, "on")

\* ImouSwitch.async_turn_off, to its await
async_turn_off(t) == TurnStart(t, "off")

\* The command of task t returns: the collaborator caches the commanded
\* state, and the action writes the entity's state to the host.
CommandReturns(t) ==
    /\ pc[t] = "awaiting"
    /\ pc' = [pc EXCEPT ![t] = "done"]
    /\ cached' = (cmd[t] = "on")
    /\ pushed' = WrittenState(cached, cached')
    /\ events' = [events EXCEPT ![t] = @ \o <<"returned", "write">>]
    /\ lastCompleted' = cmd[t]
    /\ refreshed' = FALSE
    /\ overlapped' = (overlapped \/ \E u \in Tasks \ {t} : pc[u] = "awaiting")
    /\ UNCHANGED cmd
    /\ UNCHANGED <<cfgVars, optVars>>

\* The command of task t raises: the action does not catch it, so the rest
\* of the action does not run and the error goes to the caller.
CommandRaises(t) ==
    /\ pc[t] = "awaiting"
    /\ pc' = [pc EXCEPT ![t] = "raised"]
    /\ events' = [events EXCEPT ![t] = @ \o <<"raised">>]
    /\ UNCHANGED <<cached, pushed, cmd, lastCompleted, refreshed, overlapped>>
    /\ UNCHANGED <<cfgVars, optVars>>

\* A scheduled refresh: the collaborator's cached state becomes what the
\* device reports, and the entity's state is written from it.
Refresh(state) ==
    /\ cached' = state
    /\ pushed' = is_on(cached')
    /\ refreshed' = TRUE
    /\ UNCHANGED <<pc, cmd, events, lastCompleted, overlapped>>
    /\ UNCHANGED <<cfgVars, optVars>>

\* async_setup_entry has added the switch of an existing entry.
InitSwitch ==
    /\ EntryExists
    /\ OptionsIdle
    /\ \E state \in BOOLEAN : SwitchAdded(state)

NextSwitch ==
    \/ \E t \in Tasks : async_turn_on(t)
    \/ \E t \in Tasks : async_turn_off(t)
    \/ \E t \in Tasks : CommandReturns(t)
    \/ \E t \in Tasks : CommandRaises(t)
    \/ \E state \in BOOLEAN : Refresh(state)

SwitchSpec == InitSwitch /\ [][NextSwitch]_vars

\* ============================================================ the claims
\* The data of the record the flow created, and the call a handler made last.
Record == created[Len(created)].data
LastCall == calls[Len(calls)]
NameGiven ==
    CONF_DEVICE_NAME \in DOMAIN lastInput /\ lastInput[CONF_DEVICE_NAME] # ""
Selected == discovered_devices[lastInput[CONF_DISCOVERED_DEVICE]]
SomeCallFailed == \E c \in history : c.outcome # OK

\* C1: a record is created only after a successful connectivity check. On
\* the discover path the login connect succeeded with the record's
\* credentials and a device-list request returned the selected device; on
\* the manual path the login connect, the device connect and the device
\* initialize all succeeded, the last two for the submitted device_id.
C1_RecordOnlyAfterCheck ==
    created # <<>> =>
        /\ Call("connect", Record.app_id, Record.app_secret, None, OK) \in history
        /\ lastHandler \in {"discover", "manual"}
        /\ lastHandler = "discover" =>
              \E m \in returned :
                 /\ lastInput[CONF_DISCOVERED_DEVICE] \in DOMAIN m
                 /\ m[lastInput[CONF_DISCOVERED_DEVICE]].device_id = Record.device_id
        /\ lastHandler = "manual" =>
              /\ Record.device_id = lastInput[CONF_DEVICE_ID]
              /\ Call("device_connect", Record.app_id, Record.app_secret,
                      Record.device_id, OK) \in history
              /\ Call("device_initialize", Record.app_id, Record.app_secret,
                      Record.device_id, OK) \in history

\* C1 witness: a record created by the manual step after some call failed.
C1_Witness ==
    created # <<>> /\ lastHandler = "manual" /\ SomeCallFailed

\* C2: a submission of the manual form creates a record if and only if
\* connect and initialize both succeeded; otherwise there is no record and
\* the manual form is shown again with a base error.
C2_ManualRecordIffBoth ==
    lastHandler = "manual" =>
        LET both == /\ Len(calls) = 2
                    /\ calls[1].call = "device_connect" /\ calls[1].outcome = OK
                    /\ calls[2].call = "device_initialize" /\ calls[2].outcome = OK
        IN  /\ both <=> (step = "create_entry" /\ Len(created) = 1)
            /\ ~both => /\ created = <<>>
                        /\ step = "manual"
                        /\ DOMAIN formErrors = {"base"}
                        /\ formErrors["base"] = LastCall.outcome

\* C2 witness: a manual submission whose connect succeeded and whose
\* initialize failed.
C2_Witness ==
    /\ lastHandler = "manual"
    /\ Len(calls) = 2
    /\ calls[2].outcome # OK
    /\ step = "manual"

\* C3: when the connect of a login submission fails, the login form is shown
\* again with the failure's title as base error, and neither the discover
\* nor the manual step is entered.
C3_FailedLoginStaysInLogin ==
    (lastHandler = "login" /\ calls[1].outcome # OK) =>
        /\ step = "login"
        /\ DOMAIN formErrors = {"base"}
        /\ formErrors["base"] = calls[1].outcome
        /\ Len(calls) = 1
        /\ created = <<>>

\* C3 witness: a login submission failed with the title connection_failed.
C3_Witness ==
    /\ lastHandler = "login"
    /\ calls[1].outcome = "connection_failed"
    /\ step = "login"

\* C4: after a successful login the next rendered step follows
\* enable_discovery alone: manual (and no device-list request) when it is
\* false, discover (with the device-list request issued) when it is true.
C4_BranchByEnableDiscovery ==
    (lastHandler = "login" /\ calls[1].outcome = OK) =>
        IF lastInput[CONF_ENABLE_DISCOVER]
        THEN /\ step = "discover"
             /\ Len(calls) = 2
             /\ calls[2].call = "discover"
        ELSE /\ step = "manual"
             /\ Len(calls) = 1

\* C4 witness: a successful login with enable_discovery false, after a
\* failed one, has rendered the manual form.
C4_Witness ==
    /\ lastHandler = "login"
    /\ calls[1].outcome = OK
    /\ ~lastInput[CONF_ENABLE_DISCOVER]
    /\ step = "manual"
    /\ nSubmit >= 2

\* C5: the record's device_name, and the entry's title, is the display name
\* when one is given and not empty, and otherwise the name the device
\* reports (the selected device, or the connected Device Client).
C5_NameOfRecord ==
    created # <<>> =>
        LET reportedName ==
                IF lastHandler = "discover" THEN Selected.name ELSE deviceName
        IN  /\ Record.device_name =
                  (IF NameGiven THEN lastInput[CONF_DEVICE_NAME] ELSE reportedName)
            /\ created[Len(created)].title = Record.device_name

\* C5 witness: a record of the discover step with an empty display name.
C5_Witness ==
    /\ created # <<>>
    /\ lastHandler = "discover"
    /\ CONF_DEVICE_NAME \in DOMAIN lastInput
    /\ lastInput[CONF_DEVICE_NAME] = ""
    /\ Record.device_name = "Cam1"

\* C6: the record's app_id and app_secret are those of the one login
\* submission whose connect succeeded; its device_id is the selected
\* device's reported id on the discover path and the submitted device_id on
\* the manual path.
C6_CredentialsAndDeviceId ==
    created # <<>> =>
        /\ Len(okLogins) = 1
        /\ Record.app_id = okLogins[1][CONF_APP_ID]
        /\ Record.app_secret = okLogins[1][CONF_APP_SECRET]
        /\ Record.device_id =
              (IF lastHandler = "discover" THEN Selected.device_id
               ELSE lastInput[CONF_DEVICE_ID])

\* C6 witness: a record of the discover step after a login with other
\* credentials failed.
C6_Witness ==
    /\ created # <<>>
    /\ lastHandler = "discover"
    /\ \E c \in history :
          /\ c.call = "connect"
          /\ c.outcome # OK
          /\ c.app_id # Record.app_id
          /\ c.app_secret # Record.app_secret

\* C7: when the device-list request of the discover step fails, no record
\* is created and the discover form is shown with the failure's title as
\* base error and no selectable device.
C7_DiscoverFailureShowsEmptyForm ==
    (calls # <<>> /\ LastCall.call = "discover" /\ LastCall.outcome # OK) =>
        /\ step = "discover"
        /\ DOMAIN formErrors = {"base"}
        /\ formErrors["base"] = LastCall.outcome
        /\ formKeys = {}
        /\ created = <<>>

\* C7 witness: a device-list request failed with not_authorized.
C7_Witness ==
    /\ calls # <<>>
    /\ LastCall.call = "discover"
    /\ LastCall.outcome = "not_authorized"
    /\ step = "discover"

\* C8: after a failed external call the form of the same step is shown with
\* a base error and accepts some input, so that the user can retry.
C8_RetryAlwaysPossible ==
    (step \in {"login", "discover", "manual"} /\ formErrors # EmptyDict) =>
        AcceptedInputs(step, formKeys) # {}

\* A step handled a submission of the login form and its connect failed.
LoginFailed ==
    /\ step = "login"
    /\ lastHandler' = "login"
    /\ nSubmit' = nSubmit + 1
    /\ calls'[1].outcome # OK

\* C11: a failed login leaves the session state as it was, the error
\* annotation apart: the cached credentials, the cached discovery client,
\* the discovered devices and the HTTP session are unchanged.
C11_FailedLoginKeepsState ==
    [][LoginFailed =>
          /\ app_id' = app_id
          /\ app_secret' = app_secret
          /\ discover_service' = discover_service
          /\ discovered_devices' = discovered_devices
          /\ session' = session]_vars

\* C12: the created entry is terminal: a flow creates at most one record,
\* and once it exists no form is rendered, no call is issued and no
\* submission is handled.
C12_CreateIsTerminal ==
    /\ [](Len(created) <= 1)
    /\ [][created # <<>> =>
             /\ created' = created
             /\ step = "create_entry"
             /\ step' = step
             /\ calls' = calls
             /\ history' = history
             /\ nSubmit' = nSubmit]_vars

\* C12 witness: a record exists and the flow has handled fewer submissions
\* than the model allows.
C12_Witness ==
    created # <<>> /\ step = "create_entry" /\ nSubmit < MaxSubmits

\* C13: the keys the discover form offers are the keys of the stored device
\* set, so the lookup of an accepted selection never misses, and a record of
\* the discover step is that of a stored device.
C13_SelectionResolves ==
    /\ step # "exception"
    /\ step = "discover" => formKeys = DOMAIN discovered_devices
    /\ (created # <<>> /\ lastHandler = "discover") =>
          /\ lastInput[CONF_DISCOVERED_DEVICE] \in DOMAIN discovered_devices
          /\ Record.device_id = Selected.device_id

\* C13 witness: a record made from the second of two discovered devices.
C13_Witness ==
    /\ created # <<>>
    /\ lastHandler = "discover"
    /\ lastInput[CONF_DISCOVERED_DEVICE] = "d2"
    /\ DOMAIN discovered_devices = {"d1", "d2"}

\* C15: the manual step calls connect first and initialize only after
\* connect succeeded; when connect fails initialize is not called.
C15_ConnectThenInitialize ==
    lastHandler = "manual" =>
        /\ Len(calls) \in {1, 2}
        /\ calls[1].call = "device_connect"
        /\ Len(calls) = 2 <=> calls[1].outcome = OK
        /\ Len(calls) = 2 => calls[2].call = "device_initialize"

\* C15 witness: a manual submission whose connect failed.
C15_Witness ==
    /\ lastHandler = "manual"
    /\ Len(calls) = 1
    /\ calls[1].outcome = "connection_failed"

\* The login form handled a submission in this step, with this outcome of
\* its connect.
LoginHandled(ok) ==
    /\ lastHandler' = "login"
    /\ nSubmit' = nSubmit + 1
    /\ (calls'[1].outcome = OK) = ok

\* C16: a flow runs start, login, then discover or manual, then create: the
\* login form is left only by a successful login and never shown after one,
\* discover and manual are entered only from a successful login, and a flow
\* that rendered one of the two never renders the other.
C16_FlowShape ==
    [][/\ step = "none" => step' = "login"
       /\ step = "login" =>
             \/ step' = "login" /\ LoginHandled(FALSE)
             \/ step' \in {"discover", "manual"} /\ LoginHandled(TRUE)
       /\ step = "discover" => step' \in {"discover", "create_entry"}
       /\ step = "manual" => step' \in {"manual", "create_entry"}
       /\ step \notin {"none", "login", "discover", "manual"} => step' = step]_vars

\* C16 witness: a record of the manual step after a failed login and a
\* failed manual submission.
C16_Witness ==
    /\ step = "create_entry"
    /\ lastHandler = "manual"
    /\ nSubmit = 4
    /\ \E c \in history : c.call = "connect" /\ c.outcome # OK
    /\ \E c \in history : c.call = "device_connect" /\ c.outcome # OK

\* C17: no call is retried: a submission issues each external call at most
\* once (login one connect and, entering discover, one device-list request;
\* manual one connect and at most one initialize), and a device selection
\* that creates the record issues none.
C17_NoRetries ==
    /\ \A i, j \in DOMAIN calls : calls[i].call = calls[j].call => i = j
    /\ lastHandler = "login" =>
          /\ calls[1].call = "connect"
          /\ Len(calls) = 2 => calls[2].call = "discover"
          /\ Len(calls) <= 2
    /\ lastHandler = "manual" =>
          {calls[i].call : i \in DOMAIN calls}
              \subseteq {"device_connect", "device_initialize"}
    /\ (lastHandler = "discover" /\ created # <<>>) => calls = <<>>

\* C17 witness: a selection in the discover form created the record.
C17_Witness ==
    lastHandler = "discover" /\ created # <<>> /\ calls = <<>>

\* C18: the errors of a rendered form are those of a call that failed in the
\* handler that rendered it: the title of that call if its last call
\* failed, and none otherwise.
C18_ErrorsNotStale ==
    step \in {"login", "discover", "manual"} =>
        IF calls # <<>> /\ LastCall.outcome # OK
        THEN DOMAIN formErrors = {"base"} /\ formErrors["base"] = LastCall.outcome
        ELSE formErrors = EmptyDict

\* C18 witness: the manual form rendered, with no error, by a successful
\* login that followed a failed one.
C18_Witness ==
    /\ step = "manual"
    /\ lastHandler = "login"
    /\ formErrors = EmptyDict
    /\ \E c \in history : c.call = "connect" /\ c.outcome # OK

\* C14: a switch action invokes the collaborator's command first and writes
\* the state to the host only after the command returned; when the command
\* raises, the action ends with the error and writes no state.
C14_CommandThenWrite ==
    \A t \in Tasks :
        /\ pc[t] = "idle" => events[t] = <<>>
        /\ pc[t] = "awaiting" => events[t] = <<"command">>
        /\ pc[t] = "done" => events[t] = <<"command", "returned", "write">>
        /\ pc[t] = "raised" => events[t] = <<"command", "raised">>

\* C14 witness: one action whose command raised and one whose command
\* returned, with the state of the latter written.
C14_Witness ==
    \E t, u \in Tasks :
        /\ pc[t] = "raised"
        /\ pc[u] = "done"
        /\ cmd[u] = "on"
        /\ pushed

\* Every action dispatched so far has returned, and nothing refreshed the
\* entity since the last one did.
AllReturned ==
    /\ \A t \in Tasks : pc[t] \in {"idle", "done"}
    /\ \E t \in Tasks : pc[t] = "done"
    /\ ~refreshed

\* C19: under any interleaving of turn-on and turn-off actions, once all
\* their commands have returned and no refresh came after, the state last
\* written to the host is the collaborator's cached state, which is that of
\* the command that returned last.
C19_WrittenIsCached ==
    AllReturned =>
        /\ pushed = cached
        /\ cached = (lastCompleted = "on")

\* C19 witness: a turn-on and a turn-off were in flight together, and the
\* turn-off returned last.
C19_Witness ==
    /\ AllReturned
    /\ overlapped
    /\ \E t, u \in Tasks : pc[t] = "done" /\ pc[u] = "done" /\ cmd[t] = "on" /\ cmd[u] = "off"
    /\ lastCompleted = "off"
    /\ ~pushed

====
